---- MODULE Spec2Model ----
(***************************************************************************)
(* pqrs::osx::file_monitor (src/unnamed/part_000).                         *)
(*                                                                         *)
(* One file_monitor instance, its dispatcher (the serialized execution     *)
(* context), its GCD serial queue `queue_` (on which FSEvents delivers     *)
(* static_stream_callback and on which the liveness registry is touched),  *)
(* the caller's thread (async_start, the destructor), and the environment  *)
(* (the disk and the FSEvents facility).                                   *)
(***************************************************************************)
EXTENDS Integers, Sequences, FiniteSets, TLC

VARIABLES
  disk,                \* environment: logical path -> what read_file finds there
  directories_,        \* TRUE iff the CFMutableArray of directories was allocated
  stream_,             \* FSEventStreamRef: 0 is nullptr, otherwise the stream's id
  file_bodies_,        \* unordered_map: logical path -> cached snapshot
  stream_file_paths_,  \* unordered_map: FSEvents path -> logical path
  file_monitors,       \* impl::file_monitors_manager: the set of alive instances
  queue,               \* dispatcher: pending tasks, FIFO
  attached,            \* dispatcher: is this client attached
  os_streams,          \* FSEvents: id -> "created" | "started" of the unreleased streams
  cb,                  \* a static_stream_callback past its alive check: <<batch>>, else <<>>
  dtor_pc,             \* destructor position
  delivered,           \* history: the notifications the signals have delivered
  hist,                \* history counters
  env                  \* the environment: what it may still do, and the events it draws

vars == <<disk, directories_, stream_, file_bodies_, stream_file_paths_,
          file_monitors, queue, attached, os_streams, cb, dtor_pc,
          delivered, hist, env>>

(***************************************************************************)
(* Bounds.                                                                 *)
(***************************************************************************)
MaxStarts == 2      \* calls of async_start
MaxCallbacks == 1   \* invocations of static_stream_callback by FSEvents
MaxWrites == 1      \* changes of the disk by other processes

\* the same, where the watcher is started once and never destroyed
EvCallbacks == 3
EvWrites == 2
EvInFlight == 1     \* batches handed over and not yet processed

\* the same, where enqueue_file_changed is called and batches hold two events
OrdStarts == 1
OrdCallbacks == 2
OrdWrites == 1
OrdEnqueues == 1    \* calls of enqueue_file_changed

(***************************************************************************)
(* Values.                                                                 *)
(***************************************************************************)
self == "self"

\* std::shared_ptr<std::vector<uint8_t>>
nullptr == [null |-> TRUE, bytes |-> <<>>]
make_shared(b) == [null |-> FALSE, bytes |-> b]

\* the file list handed to the constructor
files_ == <<"A", "B">>
Files == {files_[i] : i \in DOMAIN files_}

\* the resolved path of each watched file, and two paths that are not watched:
\* one that exists and one that does not
Canonical == [p \in Files |-> IF p = "A" THEN "/A" ELSE "/B"]
OtherExisting == "/U"
OtherMissing == "/G"
StreamPaths == {Canonical[p] : p \in Files} \cup {OtherExisting, OtherMissing}

\* what a file can hold: nothing (the file is missing) or bytes
Bodies == {make_shared(<<120>>), make_shared(<<121>>)}
Snapshots == {nullptr} \cup Bodies

DropFlags == {"RootChanged", "KernelDropped", "UserDropped"}
fs_event(path, flags) == [file_path |-> path, flags |-> flags]
\* the events FSEvents is taken to deliver
FsEvents ==
  {fs_event("/A", {}), fs_event("/A", {"OwnEvent"}), fs_event("/B", {}),
   fs_event(OtherExisting, {}), fs_event(OtherMissing, {}),
   fs_event("/A", {"RootChanged"}), fs_event(OtherMissing, {"UserDropped"})}
\* the two that suffice where the lifecycle is the subject
LifeEvents == {fs_event("/A", {}), fs_event("/A", {"KernelDropped"})}
\* the batches static_stream_callback is called with: one event each
EventBatches == {<<e>> : e \in FsEvents}
LifeBatches == {<<e>> : e \in LifeEvents}
\* batches of two events: two files in either order, a drop flag first, an own
\* event first
PairBatches ==
  {<<fs_event("/A", {}), fs_event("/B", {})>>,
   <<fs_event("/B", {}), fs_event("/A", {})>>,
   <<fs_event("/A", {"RootChanged"}), fs_event("/B", {})>>,
   <<fs_event("/A", {"OwnEvent"}), fs_event("/A", {})>>}
\* a path handed to enqueue_file_changed that is not in files_
NotWatched == "U"

\* the outcome of FSEventStreamCreate followed by FSEventStreamStart
Outcomes == {"ok", "create_fail", "start_fail"}

\* a dispatcher task (the lambdas handed to enqueue_to_dispatcher)
Task(type, path, body, events) ==
  [type |-> type, file_path |-> path, body |-> body, fs_events |-> events]
RegisterTask == Task("register_stream", "", nullptr, <<>>)
CallbackTask(events) == Task("stream_callback", "", nullptr, events)
FileChangedTask(path, body) == Task("file_changed", path, body, <<>>)
ErrorTask(msg) == Task("error_occurred", msg, nullptr, <<>>)
DetachTask == Task("detach", "", nullptr, <<>>)
\* the outer lambda of enqueue_file_changed
LookupTask(path) == Task("lookup", path, nullptr, <<>>)

IsNotification(t) == t.type \in {"file_changed", "error_occurred"}

NoEntry == [null |-> TRUE, bytes |-> <<0>>]   \* find() == end()
NoAlias == ""

(***************************************************************************)
(* The filesystem (pqrs::filesystem, std::ifstream).                       *)
(***************************************************************************)
\* file_monitor::read_file: the bytes of the file, nullptr when it cannot be opened
read_file(path) ==
  IF path \in Files /\ ~disk[path].null
    THEN make_shared(disk[path].bytes)
    ELSE nullptr

\* filesystem::realpath: <<resolved path>>, or <<>> when the path does not exist
realpath(path) ==
  CASE path \in Files ->
         IF disk[path].null THEN <<>> ELSE <<Canonical[path]>>
    [] path \in {Canonical[p] : p \in Files} ->
         LET p == CHOOSE f \in Files : Canonical[f] = path
         IN IF disk[p].null THEN <<>> ELSE <<path>>
    [] path = OtherExisting -> <<path>>
    [] OTHER -> <<>>

(***************************************************************************)
(* The state one dispatcher task works on, and what it enqueues.           *)
(***************************************************************************)
Watcher ==
  [stream_ |-> stream_, file_bodies_ |-> file_bodies_,
   stream_file_paths_ |-> stream_file_paths_, os_streams |-> os_streams,
   hist |-> hist, enq |-> <<>>]

\* history: a notification was generated, by enqueue_file_changed (manual) or
\* by a diff, after so many reads
generated(w, task, manual) ==
  IF env.trace /\ IsNotification(task)
    THEN [w EXCEPT !.hist.generated =
                     Append(@, [task |-> task, manual |-> manual,
                                at |-> Len(w.hist.log)])]
    ELSE w

\* history: update_file_bodies read a watched file
logged(w, file_path, file_body, updated) ==
  IF env.trace
    THEN [w EXCEPT !.hist.log =
                     Append(@, [file_path |-> file_path, body |-> file_body,
                                updated |-> updated, own |-> FALSE])]
    ELSE w

\* history: the last read was made for an own event
own_event_read(w) ==
  IF env.trace
    THEN [w EXCEPT !.hist.log[Len(w.hist.log)].own = TRUE]
    ELSE w

\* enqueue_to_dispatcher, called from a task that is running: the client is attached
enqueue(w, task) ==
  generated([w EXCEPT !.enq = Append(@, task)], task, FALSE)

\* faulty variant: every read of a watched file counts as a change
update_file_bodies_no_diff(w, file_path) ==
  IF \E i \in DOMAIN files_ : file_path = files_[i]
    THEN [updated |-> TRUE, file_body |-> read_file(file_path),
          w |-> [w EXCEPT !.file_bodies_[file_path] = read_file(file_path)]]
    ELSE [updated |-> FALSE, file_body |-> nullptr, w |-> w]

\* faulty variant: absent read again over a cached absent counts as a change
update_file_bodies_absent_twice(w, file_path) ==
  IF \E i \in DOMAIN files_ : file_path = files_[i]
    THEN LET file_body == read_file(file_path)
             it == w.file_bodies_[file_path]
             unchanged ==
               /\ it # NoEntry
               /\ ~it.null /\ ~file_body.null /\ it.bytes = file_body.bytes
         IN IF unchanged
              THEN [updated |-> FALSE, file_body |-> nullptr,
                    w |-> logged([w EXCEPT !.hist.unchanged = @ + 1],
                                 file_path, file_body, FALSE)]
              ELSE [updated |-> TRUE, file_body |-> file_body,
                    w |-> logged([w EXCEPT !.file_bodies_[file_path] = file_body],
                                 file_path, file_body, TRUE)]
    ELSE [updated |-> FALSE, file_body |-> nullptr, w |-> w]

\* update_file_bodies: <<updated, file_body>> and the cache afterwards
update_file_bodies(w, file_path) ==
  IF \E i \in DOMAIN files_ : file_path = files_[i]
    THEN LET file_body == read_file(file_path)
             it == w.file_bodies_[file_path]
             unchanged ==
               /\ it # NoEntry
               /\ \/ ~it.null /\ ~file_body.null /\ it.bytes = file_body.bytes
                  \/ it.null /\ file_body.null
         IN IF unchanged
              THEN [updated |-> FALSE, file_body |-> nullptr,
                    w |-> logged([w EXCEPT !.hist.unchanged = @ + 1],
                                 file_path, file_body, FALSE)]
              ELSE [updated |-> TRUE, file_body |-> file_body,
                    w |-> logged([w EXCEPT !.file_bodies_[file_path] = file_body],
                                 file_path, file_body, TRUE)]
    ELSE [updated |-> FALSE, file_body |-> nullptr, w |-> w]

\* faulty variant: the loop reports only the files that could be read
RECURSIVE signal_manually_skip_absent(_, _)
signal_manually_skip_absent(w, i) ==
  IF i > Len(files_)
    THEN w
    ELSE LET r == update_file_bodies(w, files_[i])
         IN signal_manually_skip_absent(
              IF r.updated /\ ~r.file_body.null
                THEN enqueue(r.w, FileChangedTask(files_[i], r.file_body))
                ELSE r.w,
              i + 1)

\* faulty variant: a watched file that cannot be read is reported as an error
RECURSIVE signal_manually_reports_unreadable(_, _)
signal_manually_reports_unreadable(w, i) ==
  IF i > Len(files_)
    THEN w
    ELSE LET r == update_file_bodies(w, files_[i])
         IN signal_manually_reports_unreadable(
              IF r.updated
                THEN IF r.file_body.null
                       THEN enqueue(r.w, ErrorTask(files_[i]))
                       ELSE enqueue(r.w, FileChangedTask(files_[i], r.file_body))
                ELSE r.w,
              i + 1)

\* the loop of register_stream over files_, from index i on
RECURSIVE signal_manually(_, _)
signal_manually(w, i) ==
  IF i > Len(files_)
    THEN w
    ELSE LET r == update_file_bodies(w, files_[i])
         IN signal_manually(
              IF r.updated
                THEN enqueue(r.w, FileChangedTask(files_[i], r.file_body))
                ELSE r.w,
              i + 1)

\* FSEventStreamCreate, FSEventStreamSetDispatchQueue, FSEventStreamStart
create_stream(w, outcome) ==
  LET id == w.hist.creates + 1
  IN CASE outcome = "create_fail" ->
            enqueue([w EXCEPT !.stream_ = 0,
                              !.hist.create_fails = @ + 1],
                    ErrorTask("FSEventStreamCreate is failed."))
       [] outcome = "start_fail" ->
            enqueue([w EXCEPT !.stream_ = id,
                              !.os_streams = @ \cup {<<id, "created">>},
                              !.hist.creates = id],
                    ErrorTask("FSEventStreamStart is failed."))
       [] OTHER ->
            [w EXCEPT !.stream_ = id,
                      !.os_streams = @ \cup {<<id, "started">>},
                      !.hist.creates = id]

\* faulty variant: register_stream without its "already started" return
register_stream_always(w, outcome) ==
  IF ~directories_
    THEN w
    ELSE create_stream(
           signal_manually([w EXCEPT !.hist.passes = @ + 1], 1), outcome)

register_stream(w, outcome) ==
  IF w.stream_ # 0
    THEN w
    ELSE IF ~directories_
      THEN w
      ELSE create_stream(
             signal_manually([w EXCEPT !.hist.passes = @ + 1], 1), outcome)

\* faulty variant: unregister_stream forgets the stream without releasing it
unregister_stream_leaks(w) ==
  IF w.stream_ # 0
    THEN [w EXCEPT !.stream_ = 0]
    ELSE w

unregister_stream(w) ==
  IF w.stream_ # 0
    THEN [w EXCEPT !.os_streams = {s \in @ : s[1] # w.stream_},
                   !.hist.releases = @ + 1,
                   !.stream_ = 0]
    ELSE w

\* faulty variant: the lookup reads the file before it looks into the cache
lookup_reads(w, file_path) ==
  LET w1 == update_file_bodies(w, file_path).w
  IN IF file_path \in DOMAIN w1.file_bodies_ /\ w1.file_bodies_[file_path] # NoEntry
       THEN generated([w1 EXCEPT !.enq =
                          Append(@, FileChangedTask(file_path,
                                                    w1.file_bodies_[file_path]))],
                      FileChangedTask(file_path, w1.file_bodies_[file_path]),
                      TRUE)
       ELSE w1

\* the outer lambda of enqueue_file_changed: find, and enqueue the inner lambda
lookup(w, file_path) ==
  IF file_path \in DOMAIN w.file_bodies_ /\ w.file_bodies_[file_path] # NoEntry
    THEN LET changed_file_body == w.file_bodies_[file_path]
         IN generated([w EXCEPT !.enq = Append(@, FileChangedTask(file_path,
                                                    changed_file_body))],
                      FileChangedTask(file_path, changed_file_body), TRUE)
    ELSE w

\* faulty variant: an event whose path does not resolve is dropped without asking
\* stream_file_paths_
interpret_event_no_lookup(w, e) ==
  LET rp == realpath(e.file_path)
      found == IF rp = <<>> THEN {}
               ELSE {i \in DOMAIN files_ : rp = realpath(files_[i])}
  IN IF found = {}
       THEN w
       ELSE LET file_path == files_[CHOOSE i \in found : \A j \in found : i <= j]
                r == update_file_bodies(
                       [w EXCEPT !.stream_file_paths_[e.file_path] = file_path],
                       file_path)
            IN IF r.updated /\ "OwnEvent" \notin e.flags
                 THEN enqueue(r.w, FileChangedTask(file_path, r.file_body))
                 ELSE r.w

\* faulty variant: an own event is dropped before the file is read
interpret_event_own_skipped(w, e) ==
  LET rp == realpath(e.file_path)
      found == IF rp = <<>> THEN {}
               ELSE {i \in DOMAIN files_ : rp = realpath(files_[i])}
      alias == w.stream_file_paths_[e.file_path]
      changed_file_path ==
        IF rp # <<>>
          THEN IF found # {}
                 THEN <<files_[CHOOSE i \in found : \A j \in found : i <= j]>>
                 ELSE <<>>
          ELSE IF alias # NoAlias THEN <<alias>> ELSE <<>>
      w1 == IF rp # <<>>
              THEN IF found # {}
                     THEN [w EXCEPT !.stream_file_paths_[e.file_path] =
                                        changed_file_path[1]]
                     ELSE w
              ELSE [w EXCEPT !.stream_file_paths_[e.file_path] = NoAlias]
  IN IF changed_file_path = <<>> \/ "OwnEvent" \in e.flags
       THEN w1
       ELSE LET file_path == changed_file_path[1]
                r == update_file_bodies(w1, file_path)
            IN IF r.updated
                 THEN enqueue(r.w, FileChangedTask(file_path, r.file_body))
                 ELSE r.w

\* faulty variant: an event whose path does not resolve and has no alias is
\* matched against the names of the watched files
interpret_event_guesses(w, e) ==
  LET rp == realpath(e.file_path)
      found == IF rp = <<>> THEN {}
               ELSE {i \in DOMAIN files_ : rp = realpath(files_[i])}
      alias == w.stream_file_paths_[e.file_path]
      guess == {i \in DOMAIN files_ : Canonical[files_[i]] = e.file_path}
      changed_file_path ==
        IF rp # <<>>
          THEN IF found # {}
                 THEN <<files_[CHOOSE i \in found : \A j \in found : i <= j]>>
                 ELSE <<>>
          ELSE IF alias # NoAlias
                 THEN <<alias>>
                 ELSE IF guess # {}
                        THEN <<files_[CHOOSE i \in guess : TRUE]>>
                        ELSE <<>>
      w1 == IF rp # <<>>
              THEN IF found # {}
                     THEN [w EXCEPT !.stream_file_paths_[e.file_path] =
                                        changed_file_path[1]]
                     ELSE w
              ELSE [w EXCEPT !.stream_file_paths_[e.file_path] = NoAlias]
  IN IF changed_file_path = <<>>
       THEN w1
       ELSE LET file_path == changed_file_path[1]
                r == update_file_bodies(w1, file_path)
            IN IF r.updated /\ "OwnEvent" \notin e.flags
                 THEN enqueue(r.w, FileChangedTask(file_path, r.file_body))
                 ELSE r.w

\* faulty variant: file_changed carries the path FSEvents reported
interpret_event_reports_stream_path(w, e) ==
  LET rp == realpath(e.file_path)
      found == IF rp = <<>> THEN {}
               ELSE {i \in DOMAIN files_ : rp = realpath(files_[i])}
      alias == w.stream_file_paths_[e.file_path]
      changed_file_path ==
        IF rp # <<>>
          THEN IF found # {}
                 THEN <<files_[CHOOSE i \in found : \A j \in found : i <= j]>>
                 ELSE <<>>
          ELSE IF alias # NoAlias THEN <<alias>> ELSE <<>>
      w1 == IF rp # <<>>
              THEN IF found # {}
                     THEN [w EXCEPT !.stream_file_paths_[e.file_path] =
                                        changed_file_path[1]]
                     ELSE w
              ELSE [w EXCEPT !.stream_file_paths_[e.file_path] = NoAlias]
  IN IF changed_file_path = <<>>
       THEN w1
       ELSE LET file_path == changed_file_path[1]
                r == update_file_bodies(w1, file_path)
            IN IF r.updated /\ "OwnEvent" \notin e.flags
                 THEN enqueue(r.w, FileChangedTask(e.file_path, r.file_body))
                 ELSE r.w

\* one event of stream_callback that carries no drop flag
interpret_event(w, e) ==
  LET rp == realpath(e.file_path)
      found == IF rp = <<>> THEN {}
               ELSE {i \in DOMAIN files_ : rp = realpath(files_[i])}
      alias == w.stream_file_paths_[e.file_path]
      \* changed_file_path, as <<path>> or <<>>
      changed_file_path ==
        IF rp # <<>>
          THEN IF found # {}
                 THEN <<files_[CHOOSE i \in found : \A j \in found : i <= j]>>
                 ELSE <<>>
          ELSE IF alias # NoAlias THEN <<alias>> ELSE <<>>
      w1 == IF rp # <<>>
              THEN IF found # {}
                     THEN [w EXCEPT !.stream_file_paths_[e.file_path] =
                                        changed_file_path[1]]
                     ELSE w
              ELSE [w EXCEPT !.stream_file_paths_[e.file_path] = NoAlias]
  IN IF changed_file_path = <<>>
       THEN w1
       ELSE LET file_path == changed_file_path[1]
                r == update_file_bodies(w1, file_path)
                own_event == "OwnEvent" \in e.flags
            IN IF r.updated
                 THEN IF ~own_event
                        THEN enqueue(r.w, FileChangedTask(file_path, r.file_body))
                        ELSE own_event_read(r.w)
                 ELSE r.w

\* faulty variant: a drop flag only replaces the stream, without the loop over files_
RECURSIVE stream_callback_recreate_only(_, _, _)
stream_callback_recreate_only(w, fs_events, outcomes) ==
  IF fs_events = <<>>
    THEN w
    ELSE LET e == Head(fs_events)
             w1 == IF e.flags \cap DropFlags # {}
                     THEN create_stream(
                            unregister_stream(
                              [w EXCEPT !.hist.resubs = @ + 1]),
                            Head(outcomes))
                     ELSE interpret_event(w, e)
         IN stream_callback_recreate_only(w1, Tail(fs_events), Tail(outcomes))

\* faulty variant: a drop flag ends the work on the batch
RECURSIVE stream_callback_stops_at_drop(_, _, _)
stream_callback_stops_at_drop(w, fs_events, outcomes) ==
  IF fs_events = <<>>
    THEN w
    ELSE LET e == Head(fs_events)
         IN IF e.flags \cap DropFlags # {}
              THEN register_stream(
                     unregister_stream([w EXCEPT !.hist.resubs = @ + 1]),
                     Head(outcomes))
              ELSE stream_callback_stops_at_drop(
                     interpret_event(w, e), Tail(fs_events), Tail(outcomes))

\* stream_callback: the events in order; outcomes[i] is what the OS answers
\* should event i re-register the stream
RECURSIVE stream_callback(_, _, _)
stream_callback(w, fs_events, outcomes) ==
  IF fs_events = <<>>
    THEN w
    ELSE LET e == Head(fs_events)
             w1 == IF e.flags \cap DropFlags # {}
                     THEN register_stream(
                            unregister_stream(
                              [w EXCEPT !.hist.resubs = @ + 1]),
                            Head(outcomes))
                     ELSE interpret_event(w, e)
         IN stream_callback(w1, Tail(fs_events), Tail(outcomes))

(***************************************************************************)
(* The dispatcher (pqrs::dispatcher): one worker, FIFO; a task of a client *)
(* that is no longer attached is not run. detach_from_dispatcher(f) puts f *)
(* behind the tasks already queued, blocks the caller until f has run, and *)
(* the client is detached when f returns.                                  *)
(***************************************************************************)
\* enqueue_to_dispatcher from a thread other than the dispatcher's
enqueue_to_dispatcher(task) ==
  IF attached THEN Append(queue, task) ELSE queue

\* the dispatcher takes the head task of an attached client
Running(type) ==
  /\ queue # <<>>
  /\ attached
  /\ Head(queue).type = type

\* a task has run: the state it leaves and the tasks it enqueued
Commit(w) ==
  /\ stream_' = w.stream_
  /\ file_bodies_' = w.file_bodies_
  /\ stream_file_paths_' = w.stream_file_paths_
  /\ os_streams' = w.os_streams
  /\ hist' = w.hist
  /\ queue' = Tail(queue) \o w.enq

NoHistory ==
  [passes |-> 0, creates |-> 0, create_fails |-> 0, releases |-> 0,
   resubs |-> 0, starts_run |-> 0, dead_callbacks |-> 0, unchanged |-> 0,
   log |-> <<>>, generated |-> <<>>]

\* the state the constructor leaves
Constructed ==
  /\ stream_ = 0
  /\ file_bodies_ = [p \in Files |-> NoEntry]
  /\ stream_file_paths_ = [p \in StreamPaths |-> NoAlias]
  /\ file_monitors = {self}
  /\ queue = <<>>
  /\ attached = TRUE
  /\ os_streams = {}
  /\ cb = <<>>
  /\ dtor_pc = "alive"
  /\ delivered = <<>>
  /\ hist = NoHistory

Init ==
  /\ Constructed
  /\ disk \in {[p \in Files |-> IF p = "A" THEN make_shared(<<120>>) ELSE b] :
                b \in {nullptr, make_shared(<<120>>)}}
  /\ directories_ \in BOOLEAN
  /\ env = [starts |-> MaxStarts, callbacks |-> MaxCallbacks,
            writes |-> MaxWrites, in_flight |-> MaxCallbacks,
            batches |-> LifeBatches, enqueues |-> 0, trace |-> FALSE]

(***************************************************************************)
(* The caller's thread.                                                    *)
(***************************************************************************)
\* faulty variant: register_stream is run by the caller of async_start
async_start_eager ==
  /\ dtor_pc = "alive"
  /\ env.starts > 0
  /\ env' = [env EXCEPT !.starts = @ - 1]
  /\ \E outcome \in Outcomes :
       LET w == register_stream(Watcher, outcome)
       IN /\ stream_' = w.stream_
          /\ file_bodies_' = w.file_bodies_
          /\ stream_file_paths_' = w.stream_file_paths_
          /\ os_streams' = w.os_streams
          /\ hist' = w.hist
          /\ queue' = queue \o w.enq
  /\ UNCHANGED <<disk, directories_, file_monitors, attached, cb, dtor_pc,
                 delivered>>

async_start ==
  /\ dtor_pc = "alive"
  /\ env.starts > 0
  /\ env' = [env EXCEPT !.starts = @ - 1]
  /\ queue' = enqueue_to_dispatcher(RegisterTask)
  /\ UNCHANGED <<disk, directories_, stream_, file_bodies_, stream_file_paths_,
                 file_monitors, attached, os_streams, cb, dtor_pc, delivered,
                 hist>>

enqueue_file_changed ==
  /\ dtor_pc = "alive"
  /\ env.enqueues > 0
  /\ env' = [env EXCEPT !.enqueues = @ - 1]
  /\ \E file_path \in Files \cup {NotWatched} :
       queue' = enqueue_to_dispatcher(LookupTask(file_path))
  /\ UNCHANGED <<disk, directories_, stream_, file_bodies_, stream_file_paths_,
                 file_monitors, attached, os_streams, cb, dtor_pc, delivered,
                 hist>>

\* ~file_monitor is entered: dispatch_sync(queue_, erase) is submitted
DtorBegin ==
  /\ dtor_pc = "alive"
  /\ dtor_pc' = "erase"
  /\ UNCHANGED <<disk, directories_, stream_, file_bodies_, stream_file_paths_,
                 file_monitors, queue, attached, os_streams, cb, delivered,
                 hist, env>>

\* faulty variant: the erase is not serialized with the callbacks on queue_
DtorErase_unserialized ==
  /\ dtor_pc = "erase"
  /\ file_monitors' = file_monitors \ {self}
  /\ dtor_pc' = "detach"
  /\ UNCHANGED <<disk, directories_, stream_, file_bodies_, stream_file_paths_,
                 queue, attached, os_streams, cb, delivered, hist, env>>

\* the erase block runs on queue_, which runs one block at a time
DtorErase ==
  /\ dtor_pc = "erase"
  /\ cb = <<>>
  /\ file_monitors' = file_monitors \ {self}
  /\ dtor_pc' = "detach"
  /\ UNCHANGED <<disk, directories_, stream_, file_bodies_, stream_file_paths_,
                 queue, attached, os_streams, cb, delivered, hist, env>>

\* dispatch_release(queue_); detach_from_dispatcher hands unregister_stream to
\* the dispatcher and waits for it
DtorDetach ==
  /\ dtor_pc = "detach"
  /\ queue' = enqueue_to_dispatcher(DetachTask)
  /\ dtor_pc' = IF attached THEN "wait" ELSE "done"
  /\ UNCHANGED <<disk, directories_, stream_, file_bodies_, stream_file_paths_,
                 file_monitors, attached, os_streams, cb, delivered, hist,
                 env>>

(***************************************************************************)
(* The dispatcher thread.                                                  *)
(***************************************************************************)
RunRegisterStream ==
  /\ Running("register_stream")
  /\ \E outcome \in Outcomes :
       Commit(register_stream([Watcher EXCEPT !.hist.starts_run = @ + 1],
                              outcome))
  /\ UNCHANGED <<disk, directories_, file_monitors, attached, cb, dtor_pc,
                 delivered, env>>

RunStreamCallback ==
  /\ Running("stream_callback")
  /\ LET fs_events == Head(queue).fs_events
     IN \E outcomes \in [DOMAIN fs_events -> Outcomes] :
          Commit(stream_callback(Watcher, fs_events, outcomes))
  /\ UNCHANGED <<disk, directories_, file_monitors, attached, cb, dtor_pc,
                 delivered, env>>

\* faulty variant: the lookup task invokes file_changed itself, without a
\* second task
RunLookup_collapsed ==
  /\ queue # <<>>
  /\ attached
  /\ Head(queue).type = "lookup"
  /\ LET w == lookup(Watcher, Head(queue).file_path)
     IN /\ delivered' = delivered \o w.enq
        /\ hist' = w.hist
  /\ queue' = Tail(queue)
  /\ UNCHANGED <<disk, directories_, stream_, file_bodies_, stream_file_paths_,
                 file_monitors, attached, os_streams, cb, dtor_pc, env>>

RunLookup ==
  /\ Running("lookup")
  /\ Commit(lookup(Watcher, Head(queue).file_path))
  /\ UNCHANGED <<disk, directories_, file_monitors, attached, cb, dtor_pc,
                 delivered, env>>

\* the signal file_changed is invoked
DeliverFileChanged ==
  /\ Running("file_changed")
  /\ delivered' = Append(delivered, Head(queue))
  /\ queue' = Tail(queue)
  /\ UNCHANGED <<disk, directories_, stream_, file_bodies_, stream_file_paths_,
                 file_monitors, attached, os_streams, cb, dtor_pc, hist, env>>

\* the signal error_occurred is invoked
DeliverErrorOccurred ==
  /\ Running("error_occurred")
  /\ delivered' = Append(delivered, Head(queue))
  /\ queue' = Tail(queue)
  /\ UNCHANGED <<disk, directories_, stream_, file_bodies_, stream_file_paths_,
                 file_monitors, attached, os_streams, cb, dtor_pc, hist, env>>

\* faulty variant: unregister_stream is run on the dispatcher without detaching from it
RunDetach_stays_attached ==
  /\ queue # <<>>
  /\ attached
  /\ Head(queue).type = "detach"
  /\ stream_' = 0
  /\ os_streams' = {s \in os_streams : s[1] # stream_}
  /\ hist' = IF stream_ # 0 THEN [hist EXCEPT !.releases = @ + 1] ELSE hist
  /\ queue' = Tail(queue)
  /\ dtor_pc' = "done"
  /\ UNCHANGED <<disk, directories_, file_bodies_, stream_file_paths_,
                 file_monitors, attached, cb, delivered, env>>

\* faulty variant: the client is detached without unregister_stream being run
RunDetach_no_teardown ==
  /\ queue # <<>>
  /\ attached
  /\ Head(queue).type = "detach"
  /\ queue' = Tail(queue)
  /\ attached' = FALSE
  /\ dtor_pc' = "done"
  /\ UNCHANGED <<disk, directories_, stream_, file_bodies_, stream_file_paths_,
                 file_monitors, os_streams, cb, delivered, hist, env>>

\* the function given to detach_from_dispatcher runs, and the client is detached
RunDetach ==
  /\ Running("detach")
  /\ Commit(unregister_stream(Watcher))
  /\ attached' = FALSE
  /\ dtor_pc' = "done"
  /\ UNCHANGED <<disk, directories_, file_monitors, cb, delivered, env>>

\* a task of a detached client is dropped
SkipDetached ==
  /\ queue # <<>>
  /\ ~attached
  /\ queue' = Tail(queue)
  /\ UNCHANGED <<disk, directories_, stream_, file_bodies_, stream_file_paths_,
                 file_monitors, attached, os_streams, cb, dtor_pc, delivered,
                 hist, env>>

(***************************************************************************)
(* The FSEvents facility, delivering on queue_, and the disk.              *)
(***************************************************************************)
InFlight ==
  Len(SelectSeq(queue, LAMBDA t : t.type = "stream_callback")) + Len(cb)

\* static_stream_callback up to its alive check, for a batch of events
static_stream_callback_check ==
  /\ \E s \in os_streams : s[2] = "started"
  /\ cb = <<>>
  /\ env.callbacks > 0
  /\ InFlight < env.in_flight
  /\ env' = [env EXCEPT !.callbacks = @ - 1]
  /\ \E fs_events \in env.batches :
       cb' = IF self \in file_monitors THEN <<fs_events>> ELSE <<>>
  /\ hist' = IF self \in file_monitors THEN hist
             ELSE [hist EXCEPT !.dead_callbacks = @ + 1]
  /\ UNCHANGED <<disk, directories_, stream_, file_bodies_, stream_file_paths_,
                 file_monitors, queue, attached, os_streams, dtor_pc, delivered>>

\* faulty variant: static_stream_callback works the batch off itself, on queue_
static_stream_callback_inline ==
  /\ cb # <<>>
  /\ \E outcomes \in [DOMAIN cb[1] -> Outcomes] :
       LET w == stream_callback(Watcher, cb[1], outcomes)
       IN /\ stream_' = w.stream_
          /\ file_bodies_' = w.file_bodies_
          /\ stream_file_paths_' = w.stream_file_paths_
          /\ os_streams' = w.os_streams
          /\ hist' = w.hist
          /\ queue' = queue \o w.enq
  /\ cb' = <<>>
  /\ UNCHANGED <<disk, directories_, file_monitors, attached, dtor_pc,
                 delivered, env>>

\* static_stream_callback after its alive check: the batch is handed over
static_stream_callback_enqueue ==
  /\ cb # <<>>
  /\ queue' = enqueue_to_dispatcher(CallbackTask(cb[1]))
  /\ cb' = <<>>
  /\ UNCHANGED <<disk, directories_, stream_, file_bodies_, stream_file_paths_,
                 file_monitors, attached, os_streams, dtor_pc, delivered, hist,
                 env>>

\* another process (or this one) writes, creates or removes a watched file
WriteFile ==
  /\ env.writes > 0
  /\ env' = [env EXCEPT !.writes = @ - 1]
  /\ \E p \in Files, s \in Snapshots :
       /\ disk[p] # s
       /\ disk' = [disk EXCEPT ![p] = s]
  /\ UNCHANGED <<directories_, stream_, file_bodies_, stream_file_paths_,
                 file_monitors, queue, attached, os_streams, cb, dtor_pc,
                 delivered, hist>>

Next ==
  \/ async_start
  \/ DtorBegin
  \/ DtorErase
  \/ DtorDetach
  \/ RunRegisterStream
  \/ RunStreamCallback
  \/ DeliverFileChanged
  \/ DeliverErrorOccurred
  \/ RunDetach
  \/ SkipDetached
  \/ static_stream_callback_check
  \/ static_stream_callback_enqueue
  \/ WriteFile

Spec == Init /\ [][Next]_vars

(***************************************************************************)
(* The watcher started once and never destroyed, with every kind of event. *)
(* The initial state is the one async_start leaves when called right after *)
(* the constructor.                                                        *)
(***************************************************************************)
InitEvents ==
  /\ stream_ = 0
  /\ file_bodies_ = [p \in Files |-> NoEntry]
  /\ stream_file_paths_ = [p \in StreamPaths |-> NoAlias]
  /\ file_monitors = {self}
  /\ queue = <<RegisterTask>>
  /\ attached = TRUE
  /\ os_streams = {}
  /\ cb = <<>>
  /\ dtor_pc = "alive"
  /\ delivered = <<>>
  /\ hist = NoHistory
  /\ disk = [p \in Files |-> IF p = "A" THEN make_shared(<<120>>) ELSE nullptr]
  /\ directories_ = TRUE
  /\ env = [starts |-> 0, callbacks |-> EvCallbacks, writes |-> EvWrites,
            in_flight |-> EvInFlight, batches |-> EventBatches,
            enqueues |-> 0, trace |-> FALSE]

NextEvents ==
  \/ RunRegisterStream
  \/ RunStreamCallback
  \/ DeliverFileChanged
  \/ DeliverErrorOccurred
  \/ static_stream_callback_check
  \/ static_stream_callback_enqueue
  \/ WriteFile

SpecEvents == InitEvents /\ [][NextEvents]_vars

(***************************************************************************)
(* The watcher from its construction on, never destroyed, where            *)
(* enqueue_file_changed is called, batches hold two events, and the reads  *)
(* and the notifications generated are recorded.                           *)
(***************************************************************************)
InitOrder ==
  /\ Constructed
  /\ disk = [p \in Files |-> IF p = "A" THEN make_shared(<<120>>) ELSE nullptr]
  /\ directories_ = TRUE
  /\ env = [starts |-> OrdStarts, callbacks |-> OrdCallbacks,
            writes |-> OrdWrites, in_flight |-> OrdCallbacks,
            batches |-> PairBatches, enqueues |-> OrdEnqueues, trace |-> TRUE]

NextOrder ==
  \/ async_start
  \/ enqueue_file_changed
  \/ RunRegisterStream
  \/ RunLookup
  \/ RunStreamCallback
  \/ DeliverFileChanged
  \/ DeliverErrorOccurred
  \/ static_stream_callback_check
  \/ static_stream_callback_enqueue
  \/ WriteFile

SpecOrder == InitOrder /\ [][NextOrder]_vars

(***************************************************************************)
(* What a step of the dispatcher did, read off the queue.                  *)
(***************************************************************************)
\* the head task was taken off the queue
Popped ==
  /\ queue # <<>>
  /\ Len(queue') >= Len(queue) - 1
  /\ SubSeq(queue', 1, Len(queue) - 1) = Tail(queue)
  /\ ~(Len(queue') >= Len(queue) /\ SubSeq(queue', 1, Len(queue)) = queue)

\* the head task, of this type, ran
Ran(type) == Running(type) /\ Popped

\* the tasks the step appended when it took the head off
Enqueued == SubSeq(queue', Len(queue), Len(queue'))

Pending(type) == Len(SelectSeq(queue, LAMBDA t : t.type = type))

(***************************************************************************)
(* C1. As claimed: once ~file_monitor has been entered, neither signal is  *)
(* invoked any more.                                                       *)
(***************************************************************************)
C1_NoDeliveryOnceDestructorBegan ==
  [][dtor_pc # "alive" => delivered' = delivered]_vars

\* C1, amended: once ~file_monitor has returned (detach_from_dispatcher is
\* over), neither signal is invoked any more, whatever is still queued.
C1_NoDeliveryOnceDestructorReturned ==
  [][dtor_pc = "done" => delivered' = delivered]_vars

\* the destructor has returned while a notification was still queued
C1_Witness ==
  /\ dtor_pc = "done"
  /\ \E i \in DOMAIN queue : IsNotification(queue[i])

(***************************************************************************)
(* C2. Once the liveness entry is removed no static_stream_callback is     *)
(* past its alive check (the erase waited for it), and none that starts    *)
(* afterwards hands a batch over or changes anything of the instance.      *)
(***************************************************************************)
C2_NoCallbackActsAfterErase ==
  [][self \notin file_monitors' =>
       /\ cb' = <<>>
       /\ Pending("stream_callback")' <= Pending("stream_callback")
       /\ hist'.dead_callbacks # hist.dead_callbacks =>
            UNCHANGED <<stream_, file_bodies_, stream_file_paths_, queue,
                        attached, os_streams, delivered>>]_vars

\* a callback ran after the erase, while the stream was still running
C2_Witness ==
  /\ self \notin file_monitors
  /\ hist.dead_callbacks > 0
  /\ \E s \in os_streams : s[2] = "started"

\* the file_changed tasks among those the step appended
Emitted == SelectSeq(Enqueued, LAMBDA t : t.type = "file_changed")

\* one file_changed per watched file, in the order of files_, with what is on disk
AllReports == [i \in DOMAIN files_ |-> FileChangedTask(files_[i], disk[files_[i]])]

\* the head task is stream_callback for this one event, and it ran
RanEvent(e) == Ran("stream_callback") /\ Head(queue).fs_events = <<e>>

(***************************************************************************)
(* C3. A watched path with a cached snapshot is re-read: update_file_bodies *)
(* reports a change, and replaces the cache, exactly when what it read     *)
(* differs from the cached snapshot; an event that is not the process's    *)
(* own then emits one file_changed exactly in that case. Equal bytes and   *)
(* absent after absent are no change.                                      *)
(***************************************************************************)
C3_ChangeIffSnapshotDiffers ==
  /\ [](\A p \in Files :
          file_bodies_[p] # NoEntry =>
            LET r == update_file_bodies(Watcher, p)
            IN /\ r.updated = (file_bodies_[p] # disk[p])
               /\ r.w.file_bodies_[p] = disk[p]
               /\ r.updated => r.file_body = disk[p])
  /\ [][\A p \in Files :
          /\ RanEvent(fs_event(Canonical[p], {}))
          /\ file_bodies_[p] # NoEntry
          /\ ~disk[p].null \/ stream_file_paths_[Canonical[p]] = p
          => /\ file_bodies_'[p] = disk[p]
             /\ Enqueued = IF file_bodies_[p] = disk[p]
                             THEN <<>>
                             ELSE <<FileChangedTask(p, disk[p])>>]_vars

\* the same bytes were read a second time: one file_changed for them, and a
\* re-read that found nothing new
C3_Witness ==
  /\ hist.unchanged > 0
  /\ hist.resubs = 0
  /\ file_bodies_["A"] = make_shared(<<121>>)
  /\ disk["A"] = make_shared(<<121>>)
  /\ queue = <<>>
  /\ Len(SelectSeq(delivered,
                   LAMBDA t : t = FileChangedTask("A", make_shared(<<121>>)))) = 1

(***************************************************************************)
(* C4. As claimed: the first pass of register_stream emits file_changed    *)
(* for exactly the watched files that can be read.                         *)
(***************************************************************************)
FirstPass ==
  /\ Ran("register_stream")
  /\ stream_ = 0
  /\ directories_
  /\ hist.passes = 0

C4_FirstPassReportsReadableOnly ==
  [][FirstPass =>
       Emitted = SelectSeq(AllReports, LAMBDA t : ~t.body.null)]_vars

\* C4, amended: the first pass emits one file_changed for every watched file,
\* carrying what was read: absent for a file that is missing or unreadable.
C4_FirstPassReportsEveryFile ==
  [][FirstPass =>
       /\ Emitted = AllReports
       /\ file_bodies_' = disk]_vars

\* the first pass has run, and file B, which is missing, is reported as absent
C4_Witness ==
  /\ hist.passes = 1
  /\ file_bodies_["B"] = nullptr
  /\ \E i \in DOMAIN queue : queue[i] = FileChangedTask("B", nullptr)

(***************************************************************************)
(* C5. As claimed: whatever FSEventStreamCreate answers, two runs of the   *)
(* async_start task (and no resubscribe) leave exactly one subscription    *)
(* created and exactly one pass over files_ run.                           *)
(***************************************************************************)
C5_TwoStartsOnePassOneStream ==
  directories_ /\ hist.starts_run = 2 /\ hist.resubs = 0
    => hist.passes = 1 /\ hist.creates = 1

\* C5, amended: the same provided FSEventStreamCreate returned a stream to the
\* first run; and a run that finds stream_ set changes nothing at all.
C5_StartIsNoOpWhileStreamExists ==
  /\ [](directories_ /\ hist.starts_run = 2 /\ hist.resubs = 0
          /\ hist.create_fails = 0
          => hist.passes = 1 /\ hist.creates = 1)
  /\ [][Ran("register_stream") /\ stream_ # 0
          => /\ queue' = Tail(queue)
             /\ hist' = [hist EXCEPT !.starts_run = @ + 1]
             /\ UNCHANGED <<stream_, file_bodies_, stream_file_paths_,
                            os_streams, delivered, disk, file_monitors,
                            attached, cb>>]_vars

\* async_start ran twice, the second time with the first one's stream in place
C5_Witness ==
  /\ directories_
  /\ hist.starts_run = 2
  /\ hist.resubs = 0
  /\ hist.create_fails = 0
  /\ hist.passes = 1
  /\ stream_ = 1

(***************************************************************************)
(* C6. The watcher holds at most one FSEvents stream: the unreleased       *)
(* streams are none when stream_ is null and just stream_ otherwise, and   *)
(* every stream created before the current one has been released.          *)
(***************************************************************************)
C6_AtMostOneStream ==
  /\ Cardinality(os_streams) <= 1
  /\ stream_ = 0 <=> os_streams = {}
  /\ \A s \in os_streams : s[1] = stream_
  /\ hist.creates = hist.releases + Cardinality(os_streams)

\* a resubscribe has replaced the first stream by a second one
C6_Witness ==
  /\ hist.creates = 2
  /\ hist.releases = 1
  /\ stream_ = 2

(***************************************************************************)
(* C8. A register_stream that reports a failure (it enqueues               *)
(* error_occurred) leaves stream_ null and reports exactly one error.      *)
(***************************************************************************)
Errors == SelectSeq(Enqueued, LAMBDA t : t.type = "error_occurred")

C8_FailureLeavesNoStream ==
  [][Ran("register_stream") /\ Errors # <<>>
       => stream_' = 0 /\ Len(Errors) = 1]_vars

(***************************************************************************)
(* C7. As claimed: a batch of one event that carries a drop flag replaces  *)
(* the stream and nothing else: the cache is as before and no file_changed *)
(* is emitted.                                                             *)
(***************************************************************************)
RanDropEvent ==
  \E e \in FsEvents : e.flags \cap DropFlags # {} /\ RanEvent(e)

C7_ResubscribeReadsNothing ==
  [][RanDropEvent => file_bodies_' = file_bodies_ /\ Emitted = <<>>]_vars

\* C7, amended: a batch of one event that carries a drop flag replaces the
\* stream and runs the loop of register_stream over files_ again: every
\* watched file is re-read, the cache becomes what is on disk, and one
\* file_changed is emitted for each file whose content differs from the cached
\* snapshot. The aliases are left alone.
C7_ResubscribeRunsThePassAgain ==
  [][RanDropEvent =>
       /\ file_bodies_' = disk
       /\ Emitted = SelectSeq(AllReports,
                              LAMBDA t : file_bodies_[t.file_path] # t.body)
       /\ stream_file_paths_' = stream_file_paths_
       /\ hist'.passes = hist.passes + 1
       /\ stream_ # 0 => hist'.releases = hist.releases + 1]_vars

\* the only callback so far carried a drop flag, and the resubscribe has
\* reported the bytes that were written to A behind the watcher's back
C7_Witness ==
  /\ hist.resubs = 1
  /\ hist.passes = 2
  /\ env.callbacks = EvCallbacks - 1
  /\ Len(delivered) = Len(files_)
  /\ queue = <<FileChangedTask("A", make_shared(<<121>>))>>

(***************************************************************************)
(* C9. As claimed: an event for A's resolved path that finds A gone, while *)
(* the cache holds bytes for A, emits file_changed(A, absent), whether or  *)
(* not an alias is stored for that path.                                   *)
(***************************************************************************)
RanPlainEventForA == RanEvent(fs_event(Canonical["A"], {}))

C9_DeletionAlwaysReported ==
  [][RanPlainEventForA /\ disk["A"].null /\ file_bodies_["A"] \in Bodies
       => Emitted = <<FileChangedTask("A", nullptr)>>]_vars

\* C9, amended: it does so when an alias is stored for A's resolved path (an
\* earlier event for A arrived while A existed), and the alias is consumed;
\* with no alias stored the event is ignored and the cache keeps the old
\* bytes. An event that finds A recreated with bytes z, after absent was
\* cached, emits file_changed(A, z) and stores the alias again.
C9_DeletionReportedThroughAlias ==
  [][RanPlainEventForA =>
       /\ disk["A"].null /\ file_bodies_["A"] \in Bodies
            /\ stream_file_paths_[Canonical["A"]] = "A"
          => /\ Emitted = <<FileChangedTask("A", nullptr)>>
             /\ file_bodies_'["A"] = nullptr
             /\ stream_file_paths_'[Canonical["A"]] = NoAlias
       /\ disk["A"].null /\ stream_file_paths_[Canonical["A"]] = NoAlias
          => /\ Emitted = <<>>
             /\ file_bodies_' = file_bodies_
       /\ disk["A"] \in Bodies /\ file_bodies_["A"] = nullptr
          => /\ Emitted = <<FileChangedTask("A", disk["A"])>>
             /\ file_bodies_'["A"] = disk["A"]
             /\ stream_file_paths_'[Canonical["A"]] = "A"]_vars

\* A was reported absent and then, recreated, with its new bytes
C9_Witness ==
  /\ Len(delivered) >= 2
  /\ delivered[Len(delivered) - 1] = FileChangedTask("A", nullptr)
  /\ delivered[Len(delivered)] = FileChangedTask("A", make_shared(<<121>>))
  /\ stream_file_paths_[Canonical["A"]] = "A"

(***************************************************************************)
(* C10. A batch of one own event emits nothing; if its path stands for a   *)
(* watched file, the cache of that file becomes what is on disk, so that   *)
(* the next event for it is diffed against the own-written content.        *)
(***************************************************************************)
C10_OwnEventUpdatesCacheSilently ==
  [][\A p \in Files :
       /\ RanEvent(fs_event(Canonical[p], {"OwnEvent"}))
       /\ ~disk[p].null \/ stream_file_paths_[Canonical[p]] = p
       => /\ Enqueued = <<>>
          /\ file_bodies_'[p] = disk[p]
          /\ LET r == update_file_bodies(
                        [Watcher EXCEPT !.file_bodies_ = file_bodies_'], p)
             IN ~r.updated]_vars

\* the cache holds bytes for A that no file_changed has ever carried: an own
\* event has read them
C10_Witness ==
  /\ file_bodies_["A"] = make_shared(<<121>>)
  /\ hist.passes = 1
  /\ \A i \in DOMAIN delivered : delivered[i].body # make_shared(<<121>>)
  /\ \A i \in DOMAIN queue : queue[i].body # make_shared(<<121>>)

(***************************************************************************)
(* The notifications in the order they are or will be delivered, and what  *)
(* the history holds for one file.                                         *)
(***************************************************************************)
Notifications ==
  SelectSeq(delivered, IsNotification) \o SelectSeq(queue, IsNotification)

BodiesOf(s) == [i \in DOMAIN s |-> s[i].body]

\* the content values carried by the file_changed notifications for p
ChangesOf(p) ==
  BodiesOf(SelectSeq(Notifications,
                     LAMBDA t : t.type = "file_changed" /\ t.file_path = p))

\* the snapshots update_file_bodies read for p, in order
ReadsOf(p) == BodiesOf(SelectSeq(hist.log, LAMBDA r : r.file_path = p))

\* those it stored in the cache
StoredOf(p) ==
  BodiesOf(SelectSeq(hist.log, LAMBDA r : r.file_path = p /\ r.updated))

\* those it stored in the cache for an event that was not an own event
ReportedOf(p) ==
  BodiesOf(SelectSeq(hist.log,
                     LAMBDA r : r.file_path = p /\ r.updated /\ ~r.own))

\* the content values of the file_changed tasks a diff generated for p
DiffChangesOf(p) ==
  LET g == SelectSeq(hist.generated,
                     LAMBDA n : /\ n.task.type = "file_changed"
                                /\ n.task.file_path = p
                                /\ ~n.manual)
  IN [i \in DOMAIN g |-> g[i].task.body]

\* the tasks generated, in order
Generated == [i \in DOMAIN hist.generated |-> hist.generated[i].task]

RECURSIVE Dedup(_)
Dedup(s) ==
  IF Len(s) <= 1
    THEN s
    ELSE IF s[1] = s[2]
      THEN Dedup(Tail(s))
      ELSE <<s[1]>> \o Dedup(Tail(s))

(***************************************************************************)
(* C11. As claimed: for every watched file, the content values carried by  *)
(* its file_changed notifications (those enqueue_file_changed repeats left *)
(* aside) are the snapshots read for it, with consecutive equal values     *)
(* deduplicated.                                                           *)
(***************************************************************************)
C11_NotificationsAreDistinctReads ==
  \A p \in Files : DiffChangesOf(p) = Dedup(ReadsOf(p))

\* C11, amended: the snapshots the cache takes for a file are the snapshots
\* read for it with consecutive equal values deduplicated; the file_changed
\* notifications that diffs generate for the file carry these snapshots, in
\* order, except the ones read for an own event, which are cached silently;
\* and the notifications are delivered in the order they were generated.
\* (enqueue_file_changed adds notifications that repeat the cached snapshot.)
C11_DiffNotificationsAreDistinctReadsButOwn ==
  /\ \A p \in Files :
       /\ StoredOf(p) = Dedup(ReadsOf(p))
       /\ DiffChangesOf(p) = ReportedOf(p)
  /\ Notifications = Generated

\* A was read three times: by the pass, for an own event after it was
\* rewritten (cached silently), and once more with nothing new; one
\* notification for A was delivered
C11_Witness ==
  /\ Len(ReadsOf("A")) = 3
  /\ Len(StoredOf("A")) = 2
  /\ Len(ReportedOf("A")) = 1
  /\ queue = <<>>
  /\ ChangesOf("A") = <<make_shared(<<120>>)>>

(***************************************************************************)
(* C12. error_occurred is emitted only by a register_stream (run for       *)
(* async_start or for an event with a drop flag) whose FSEventStreamCreate *)
(* or FSEventStreamStart failed, once, with the message of that failure;   *)
(* a register_stream that leaves a started stream emits none, and neither  *)
(* does an event without drop flag, whatever its path and whatever the     *)
(* file it names holds.                                                    *)
(***************************************************************************)
ErrorsOf(s) == SelectSeq(s, LAMBDA t : t.type = "error_occurred")

C12_ErrorOnlyOnSubscriptionFailure ==
  [][/\ Len(ErrorsOf(Notifications')) > Len(ErrorsOf(Notifications))
        => /\ Ran("register_stream") \/ RanDropEvent
           /\ \/ /\ hist'.create_fails = hist.create_fails + 1
                 /\ stream_' = 0
                 /\ Errors = <<ErrorTask("FSEventStreamCreate is failed.")>>
              \/ /\ hist'.creates = hist.creates + 1
                 /\ <<stream_', "created">> \in os_streams'
                 /\ Errors = <<ErrorTask("FSEventStreamStart is failed.")>>
     /\ /\ Ran("register_stream") \/ Ran("stream_callback")
        /\ <<stream_', "started">> \in os_streams'
        => Errors = <<>>
     /\ \A e \in FsEvents :
          e.flags \cap DropFlags = {} /\ RanEvent(e) => Errors = <<>>]_vars

\* the stream made by async_start was replaced for a drop flag, the new one
\* did not start, and that error was delivered; the missing file B was read
\* twice meanwhile
C12_Witness ==
  /\ hist.resubs = 1
  /\ hist.creates = 2
  /\ <<2, "created">> \in os_streams
  /\ file_bodies_["B"] = nullptr
  /\ ErrorsOf(delivered) = <<ErrorTask("FSEventStreamStart is failed.")>>

(***************************************************************************)
(* C13. Until the first register_stream task of async_start has run, the   *)
(* watcher is as the constructor left it: no stream, no file read, an      *)
(* empty cache and alias table, no notification generated; and it is in    *)
(* file_monitors. Calls of async_start and of enqueue_file_changed, and     *)
(* the lookup task of the latter, change none of this.                     *)
(***************************************************************************)
C13_ConstructionIsInert ==
  hist.starts_run = 0 =>
    /\ stream_ = 0
    /\ os_streams = {}
    /\ hist.log = <<>>
    /\ hist.unchanged = 0
    /\ \A p \in Files : file_bodies_[p] = NoEntry
    /\ \A p \in StreamPaths : stream_file_paths_[p] = NoAlias
    /\ Notifications = <<>>
    /\ hist.generated = <<>>
    /\ cb = <<>>
    /\ self \in file_monitors

\* async_start was called and its task has not run yet; the lookup of an
\* enqueue_file_changed has run before it, and a file was written
C13_Witness ==
  /\ hist.starts_run = 0
  /\ queue = <<RegisterTask>>
  /\ env.enqueues = 0
  /\ env.writes < OrdWrites

(***************************************************************************)
(* C14. When ~file_monitor has returned, stream_ is null and FSEvents holds *)
(* no stream of the watcher: as many streams were released as were         *)
(* created, started or not. A release is always that of the stream held,   *)
(* which is unreleased until then; and the unregister_stream of the        *)
(* destructor runs after the erase from file_monitors.                     *)
(***************************************************************************)
C14_DestructionReleasesEveryStream ==
  /\ [](dtor_pc = "done" =>
         /\ stream_ = 0
         /\ os_streams = {}
         /\ hist.releases = hist.creates)
  /\ [][hist'.releases # hist.releases =>
         /\ hist'.releases = hist.releases + 1
         /\ stream_ # 0
         /\ \E s \in os_streams : s[1] = stream_ /\ s \notin os_streams']_vars
  /\ [][Ran("detach") =>
         /\ self \notin file_monitors
         /\ stream_' = 0
         /\ os_streams' = {}]_vars

\* destruction is over; the watcher had made two streams, the second one for
\* a drop flag, and both are released
C14_Witness ==
  /\ dtor_pc = "done"
  /\ hist.creates = 2
  /\ hist.resubs = 1
  /\ hist.releases = 2
  /\ os_streams = {}

(***************************************************************************)
(* C15. A step of static_stream_callback leaves the cache, the alias       *)
(* table, the stream and the disk alone, reads no file and delivers        *)
(* nothing: all it does is append one stream_callback task holding its     *)
(* batch. Whenever the cache, the alias table or stream_ change, a task of *)
(* the dispatcher has run: register_stream, stream_callback or the         *)
(* unregister_stream of the destructor.                                    *)
(***************************************************************************)
C15_RawCallbackOnlyEnqueues ==
  /\ [][cb' # cb \/ env'.callbacks # env.callbacks =>
         /\ UNCHANGED <<file_bodies_, stream_file_paths_, stream_, os_streams,
                        delivered, disk>>
         /\ hist'.log = hist.log
         /\ hist'.unchanged = hist.unchanged
         /\ IF cb # <<>> /\ cb' = <<>>
              THEN queue' = Append(queue, CallbackTask(cb[1]))
              ELSE queue' = queue]_vars
  /\ [][<<file_bodies_, stream_file_paths_, stream_>>' #
          <<file_bodies_, stream_file_paths_, stream_>>
         => \/ Ran("register_stream")
            \/ Ran("stream_callback")
            \/ Ran("detach")]_vars

\* static_stream_callback has handed over a batch after A was rewritten: the
\* task is queued and the cache still holds the old bytes
C15_Witness ==
  /\ cb = <<>>
  /\ \E i \in DOMAIN queue : queue[i].type = "stream_callback"
  /\ file_bodies_["A"] = make_shared(<<120>>)
  /\ disk["A"] = make_shared(<<121>>)

(***************************************************************************)
(* C16. The notifications are delivered in the order they were generated,  *)
(* one per step of the dispatcher, each by a task of its own at the head   *)
(* of the queue. A batch of two events without drop flag, for files that   *)
(* exist, reads the two files in the order of the events, and emits one    *)
(* file_changed, in that order, for each read that found a change and was  *)
(* not made for an own event. A file_changed carries the snapshot that was *)
(* the last one stored for its path when it was generated, so for one path *)
(* the notifications follow the order in which the cache took the          *)
(* snapshots.                                                              *)
(***************************************************************************)
\* the file in files_ that an event path stands for
FileOf(path) == CHOOSE p \in Files : Canonical[p] = path

\* the snapshots stored for p by the first n reads
StoredBy(p, n) ==
  SelectSeq(SubSeq(hist.log, 1, n), LAMBDA r : r.file_path = p /\ r.updated)

\* what the step added to the history of reads
NewReads == SubSeq(hist'.log, Len(hist.log) + 1, Len(hist'.log))

\* the reads a batch of two plain events makes when both files exist
PairReads(e1, e2) ==
  LET p1 == FileOf(e1.file_path)
      p2 == FileOf(e2.file_path)
      u1 == file_bodies_[p1] # disk[p1]
      u2 == IF p2 = p1 THEN FALSE ELSE file_bodies_[p2] # disk[p2]
  IN <<[file_path |-> p1, body |-> disk[p1], updated |-> u1,
        own |-> u1 /\ "OwnEvent" \in e1.flags],
       [file_path |-> p2, body |-> disk[p2], updated |-> u2,
        own |-> u2 /\ "OwnEvent" \in e2.flags]>>

\* the file_changed tasks for the reads that found a change, but own events
ReportsOf(reads) ==
  LET r == SelectSeq(reads, LAMBDA x : x.updated /\ ~x.own)
  IN [i \in DOMAIN r |-> FileChangedTask(r[i].file_path, r[i].body)]

C16_NotificationsInGenerationOrder ==
  /\ [](Notifications = Generated)
  /\ [](\A i \in DOMAIN hist.generated :
          LET g == hist.generated[i]
              st == StoredBy(g.task.file_path, g.at)
          IN /\ g.task.type = "file_changed" =>
                  st # <<>> /\ g.task.body = st[Len(st)].body
             /\ \A j \in DOMAIN hist.generated :
                  i <= j => g.at <= hist.generated[j].at)
  /\ [][delivered' # delivered =>
          /\ queue # <<>>
          /\ IsNotification(Head(queue))
          /\ delivered' = Append(delivered, Head(queue))
          /\ queue' = Tail(queue)]_vars
  /\ [][\A b \in PairBatches :
          /\ Ran("stream_callback")
          /\ Head(queue).fs_events = b
          /\ \A i \in DOMAIN b :
               b[i].flags \cap DropFlags = {} /\ ~disk[FileOf(b[i].file_path)].null
          => /\ NewReads = PairReads(b[1], b[2])
             /\ Enqueued = ReportsOf(PairReads(b[1], b[2]))]_vars

\* both batches are worked off; B was created meanwhile, the last batch named
\* B before A and has reported B, and the notifications of the pass and that
\* one are delivered
C16_Witness ==
  /\ Len(hist.log) >= 6
  /\ env.callbacks = 0
  /\ queue = <<>>
  /\ Len(delivered) = 3
  /\ delivered[3] = FileChangedTask("B", make_shared(<<120>>))
  /\ hist.log[Len(hist.log) - 1].file_path = "B"
  /\ hist.log[Len(hist.log)].file_path = "A"

(***************************************************************************)
(* C17. As claimed: a batch whose first event carries a drop flag replaces *)
(* the stream, and neither looks up an alias for that event's path nor     *)
(* reads the file the path names.                                          *)
(***************************************************************************)
\* the head task is stream_callback for batch b, whose first event carries a
\* drop flag, and it ran
RanDropFirst(b) ==
  /\ Ran("stream_callback")
  /\ Head(queue).fs_events = b
  /\ b[1].flags \cap DropFlags # {}

C17_DropEventPathIsNotRead ==
  [][\A b \in PairBatches :
       RanDropFirst(b) =>
         /\ hist'.resubs = hist.resubs + 1
         /\ stream_file_paths_'[b[1].file_path] = stream_file_paths_[b[1].file_path]
         /\ \A i \in DOMAIN NewReads :
              NewReads[i].file_path # FileOf(b[1].file_path)]_vars

\* the reads of the loop of register_stream over files_
PassReads ==
  [i \in DOMAIN files_ |->
     [file_path |-> files_[i], body |-> disk[files_[i]],
      updated |-> file_bodies_[files_[i]] # disk[files_[i]], own |-> FALSE]]

\* C17, amended: such a batch replaces the stream and makes no alias lookup
\* for the path of the event, which plays no part; but the register_stream of
\* the resubscribe runs its loop over files_, which reads and diffs every
\* watched file, the one the event names included. The second event is
\* worked off afterwards: its file, if it exists, is read once more (with
\* nothing new, right after the loop) and its alias is stored.
C17_DropEventResubscribesAndBatchGoesOn ==
  [][\A b \in PairBatches :
       RanDropFirst(b) /\ b[2].flags \cap DropFlags = {} =>
         LET p2 == FileOf(b[2].file_path)
             found == ~disk[p2].null
             known == stream_file_paths_[b[2].file_path] # NoAlias
         IN /\ hist'.resubs = hist.resubs + 1
            /\ hist'.passes = hist.passes + 1
            /\ stream_ # 0 => hist'.releases = hist.releases + 1
            /\ stream_file_paths_'[b[1].file_path] =
                 stream_file_paths_[b[1].file_path]
            /\ stream_file_paths_'[b[2].file_path] =
                 IF found THEN p2 ELSE NoAlias
            /\ NewReads =
                 PassReads \o
                 IF found \/ known
                   THEN <<[file_path |-> p2, body |-> disk[p2],
                           updated |-> FALSE, own |-> FALSE]>>
                   ELSE <<>>
            /\ Emitted = ReportsOf(PassReads)
            /\ file_bodies_' = disk]_vars

\* B was created; the batch of a root-changed event for A and an event for B
\* has run: the loop has reported B, the event has read B once more and has
\* stored its alias, and no alias is stored for A
C17_Witness ==
  /\ hist.resubs = 1
  /\ env.callbacks = OrdCallbacks - 1
  /\ stream_file_paths_["/B"] = "B"
  /\ stream_file_paths_["/A"] = NoAlias
  /\ Len(hist.log) = 5
  /\ hist.log[4] = [file_path |-> "B", body |-> make_shared(<<120>>),
                     updated |-> TRUE, own |-> FALSE]
  /\ hist.log[5] = [file_path |-> "B", body |-> make_shared(<<120>>),
                     updated |-> FALSE, own |-> FALSE]

(***************************************************************************)
(* C18. A batch of one event without drop flag whose path stands for no    *)
(* watched file changes nothing and emits nothing. The path stands for no  *)
(* watched file when it resolves to a file that is not watched, or when it *)
(* does not resolve (it names nothing, or a watched file that is missing)  *)
(* and no alias is stored for it.                                          *)
(***************************************************************************)
\* the event path names something that exists
Resolves(path) ==
  \/ path = OtherExisting
  \/ \E p \in Files : Canonical[p] = path /\ ~disk[p].null

Unmatched(e) ==
  IF Resolves(e.file_path)
    THEN \A p \in Files : Canonical[p] # e.file_path
    ELSE stream_file_paths_[e.file_path] = NoAlias

C18_UnmatchedEventIsIgnored ==
  [][\A e \in FsEvents :
       e.flags \cap DropFlags = {} /\ RanEvent(e) /\ Unmatched(e) =>
         /\ UNCHANGED <<file_bodies_, stream_file_paths_, stream_, os_streams,
                        delivered>>
         /\ hist' = hist
         /\ Enqueued = <<>>]_vars

\* three events were worked off without a trace: no alias was stored, no
\* file was read after the loop of register_stream, and the new bytes of A
\* are not in the cache
C18_Witness ==
  /\ env.callbacks = 0
  /\ cb = <<>>
  /\ queue = <<>>
  /\ hist.resubs = 0
  /\ hist.unchanged = 0
  /\ \A p \in StreamPaths : stream_file_paths_[p] = NoAlias
  /\ Len(delivered) = Len(files_)
  /\ file_bodies_["A"] = make_shared(<<120>>)
  /\ disk["A"] = make_shared(<<121>>)

(***************************************************************************)
(* C19. The alias table maps paths reported by FSEvents to paths of        *)
(* files_ only: an alias stored for a path is the watched file the path    *)
(* resolved to. The cache is keyed by the paths of files_, and every       *)
(* file_changed carries a path of files_. An alias is stored only by an    *)
(* event whose path resolves to a watched file, and removed only by an     *)
(* event without drop flag for that very path, which does not resolve: the *)
(* alias is consumed, the file it names is read again.                     *)
(***************************************************************************)
C19_AliasesAndKeysAreLogicalPaths ==
  /\ [](/\ \A k \in StreamPaths :
            stream_file_paths_[k] # NoAlias =>
              /\ stream_file_paths_[k] \in Files
              /\ Canonical[stream_file_paths_[k]] = k
         /\ DOMAIN file_bodies_ = Files
         /\ \A i \in DOMAIN Notifications :
              Notifications[i].type = "file_changed" =>
                Notifications[i].file_path \in Files)
  /\ [][\A k \in StreamPaths :
          stream_file_paths_'[k] # stream_file_paths_[k] =>
            /\ \E e \in FsEvents :
                 /\ RanEvent(e)
                 /\ e.file_path = k
                 /\ e.flags \cap DropFlags = {}
            /\ IF stream_file_paths_'[k] = NoAlias
                 THEN /\ ~Resolves(k)
                      /\ file_bodies_'[stream_file_paths_[k]] =
                           disk[stream_file_paths_[k]]
                 ELSE /\ Resolves(k)
                      /\ stream_file_paths_'[k] = FileOf(k)]_vars

\* the alias of A was stored and, A gone, consumed: the deletion is delivered
\* under the name A, and no alias is left
C19_Witness ==
  /\ hist.resubs = 0
  /\ Len(delivered) = Len(files_) + 1
  /\ delivered[1] = FileChangedTask("A", make_shared(<<120>>))
  /\ delivered[Len(delivered)] = FileChangedTask("A", nullptr)
  /\ \A k \in StreamPaths : stream_file_paths_[k] = NoAlias

(***************************************************************************)
(* C20. enqueue_file_changed(path) appends one lookup task and touches     *)
(* nothing else. When the lookup task runs it reads no file and leaves     *)
(* cache, alias table and stream alone; if the cache holds an entry for    *)
(* path it appends, behind everything queued, one file_changed task for    *)
(* path with the snapshot cached at that moment, and otherwise nothing. No *)
(* more notifications come from enqueue_file_changed than it was called,   *)
(* and each is delivered once, in its place in the queue.                  *)
(***************************************************************************)
Manual == SelectSeq(hist.generated, LAMBDA n : n.manual)

C20_EnqueueFileChangedOnlyRepeatsTheCache ==
  /\ [][env'.enqueues # env.enqueues =>
         /\ \E path \in Files \cup {NotWatched} :
              queue' = Append(queue, LookupTask(path))
         /\ UNCHANGED <<file_bodies_, stream_file_paths_, stream_, os_streams,
                        delivered, disk, hist>>]_vars
  /\ [][Ran("lookup") =>
         LET path == Head(queue).file_path
             hit == path \in Files /\ file_bodies_[path] # NoEntry
         IN /\ UNCHANGED <<file_bodies_, stream_file_paths_, stream_,
                           os_streams, delivered, disk>>
            /\ hist'.log = hist.log
            /\ hist'.unchanged = hist.unchanged
            /\ queue' = IF hit
                          THEN Append(Tail(queue),
                                      FileChangedTask(path, file_bodies_[path]))
                          ELSE Tail(queue)
            /\ Len(Manual') = Len(Manual) + IF hit THEN 1 ELSE 0]_vars
  /\ [](/\ Len(Manual) <= OrdEnqueues - env.enqueues
         /\ Notifications = Generated
         /\ hist.starts_run = 0 => Manual = <<>>)

\* enqueue_file_changed("A") was called when the cache held the first bytes
\* of A; before its file_changed was delivered a batch brought the new bytes
\* into the cache: both notifications are delivered, the repeated one first
C20_Witness ==
  /\ queue = <<>>
  /\ file_bodies_["A"] = make_shared(<<121>>)
  /\ Len(Manual) = 1
  /\ Manual[1].task = FileChangedTask("A", make_shared(<<120>>))
  /\ Len(delivered) = Len(files_) + 2
  /\ delivered[Len(delivered) - 1] = FileChangedTask("A", make_shared(<<120>>))
  /\ delivered[Len(delivered)] = FileChangedTask("A", make_shared(<<121>>))
  /\ hist.generated[Len(hist.generated)].at = hist.generated[Len(hist.generated) - 1].at + 1

====
